---- MODULE Spec2Model ----
(***************************************************************************)
(* Multi-provider decision arbitration and replay (agent-system v7).       *)
(*                                                                         *)
(* Confidences are fixed-point hundredths (0.6 is 60, 0.95 is 95).         *)
(* A dataclass instance is a record carrying its class in the field cls;   *)
(* a plain dict (asdict's output, a JSON object) is a function from keys   *)
(* to values without cls.  An insertion-ordered dict whose order the code  *)
(* reads (proposals, scores) is a sequence of <<key, value>> pairs.        *)
(* A call's outcome is a record with kind "ok" and the value, or with kind *)
(* naming the exception that the call raises.                              *)
(***************************************************************************)
EXTENDS Integers, Sequences, FiniteSets, TLC

VARIABLES
    scored,      \* the candidate list handed to an arbitrator (a mutable list)
    arbCall,     \* the last arbitrator call: who, the list as passed, the outcome
    rng,         \* the state of the random module's shared generator
    seeded,      \* the seed given to random.seed since the last RandomArbitrator
                 \* call, -1 when none
    prevRandom,  \* history: the RandomArbitrator call (SpecRandom), the evaluation
                 \* (SpecEval) before the last one
    scoreArgs,   \* the (proposal, decision_input, provider_name) handed to a scorer
    scoreCall,   \* the last ProposalScorer.score call and its outcome
    corpus,      \* the episodes frozen by the online runs, in run order
    corpusArb,   \* history: the arbitrator each episode of corpus was produced with
    onlineCall,  \* the last run_online_episode call and its outcome
    replayCall,  \* the last replay_episode call and its outcome
    batchCall,   \* the last replay pass of the batch harness over a frozen corpus
    batchPrev,   \* history: the replay pass before the last one
    par,         \* replay_episode and run_online_episode calls running side by
                 \* side: each call's position and locals
    memEpisode,  \* the in-memory Episode handed to serialize_episode
    doc,         \* the persisted document (the dict json.dump writes, json.load reads)
    docState,    \* "none", "saved" (as serialized) or "edited" (changed on disk)
    loadCall,    \* the last deserialize_episode call and its outcome
    state,       \* the World State of the validated pipeline (clean)
    episode,     \* its Episode: the steps Runtime.execute returned, in order
    cycles,      \* the number of decision cycles started
    runCall,     \* the last validate, execute or decision-cycle call and its outcome
    abState,     \* the World State of the unvalidated pipeline (replay_ab)
    abEpisode    \* its Episode: the steps episode.add appended, in order

varsArb == <<scored, arbCall, rng, seeded, prevRandom, scoreArgs, scoreCall>>

varsOnline == <<corpus, corpusArb, onlineCall, replayCall, batchCall, batchPrev, par>>

varsSer == <<memEpisode, doc, docState, loadCall>>

vars == <<scored, arbCall, rng, seeded, prevRandom, scoreArgs, scoreCall,
          corpus, corpusArb, onlineCall, replayCall, batchCall, batchPrev, par,
          memEpisode, doc, docState, loadCall,
          state, episode, cycles, runCall, abState, abEpisode>>

varsRun == <<state, episode, cycles, runCall, abState, abEpisode>>

----------------------------------------------------------------------------
(* Bounds of the model *)

MaxCands == 2

MaxEpisodes == 2

MaxSteps == 2

MaxCycles == 2

MaxConstraints == 2

\* the number of states of the random module's generator
RngMod == 4

----------------------------------------------------------------------------
(* Values *)

ASK == "AskForConfirmation"

SEND == "SendRescheduleEmail"

ABORT == "Abort"

NoEmailConstraint == "Do not send email without confirmation"

Str(s) == [type |-> "str", val |-> s]

Num(s) == [type |-> "int", val |-> s]

DecisionProposal(intent, args, confidence) ==
    [cls |-> "DecisionProposal", intent |-> intent, args |-> args,
     confidence |-> confidence]

DecisionScore(confidence, intent_valid, constraint_violation, provider_priority) ==
    [cls |-> "DecisionScore", confidence |-> confidence,
     intent_valid |-> intent_valid,
     constraint_violation |-> constraint_violation,
     provider_priority |-> provider_priority]

Ok(v) == [kind |-> "ok", value |-> v]

Raise(e) == [kind |-> e]

----------------------------------------------------------------------------
(* list.sort(key=...): a stable sort; keys are tuples of integers compared *)
(* lexicographically.                                                       *)

RECURSIVE LexLess(_, _)
LexLess(a, b) ==
    IF a = <<>> \/ b = <<>> THEN a = <<>> /\ b # <<>>
    ELSE IF Head(a) # Head(b) THEN Head(a) < Head(b)
    ELSE LexLess(Tail(a), Tail(b))

InsertStable(perm, n, keys) ==
    LET pos == Cardinality({i \in 1..Len(perm) : ~LexLess(keys[n], keys[perm[i]])})
    IN  SubSeq(perm, 1, pos) \o <<n>> \o SubSeq(perm, pos + 1, Len(perm))

RECURSIVE SortPerm(_, _)
SortPerm(keys, n) ==
    IF n = 0 THEN <<>> ELSE InsertStable(SortPerm(keys, n - 1), n, keys)

SortedByKeys(list, keys) ==
    LET perm == SortPerm(keys, Len(list))
    IN  [i \in 1..Len(list) |-> list[perm[i]]]

----------------------------------------------------------------------------
(* Arbitrators.  A candidate is a pair <<proposal, score>>.                *)

\* The filter without its constraint_violation test.
IsValidIgnoringViolations(c) == c[2].intent_valid

IsValid(c) == c[2].intent_valid /\ c[2].constraint_violation = 0

ValidCandidates(list) == SelectSeq(list, IsValid)

\* The sort key with confidence put before priority.
ConfidencePriorityKey(c) == <<0 - c[2].confidence, 0 - c[2].provider_priority>>

PriorityConfidenceKey(c) == <<0 - c[2].provider_priority, 0 - c[2].confidence>>

\* The replay_ab key with confidence put before priority.
ViolationConfidencePriorityKey(c) ==
    <<c[2].constraint_violation, 0 - c[2].confidence, 0 - c[2].provider_priority>>

ViolationPriorityConfidenceKey(c) ==
    <<c[2].constraint_violation, 0 - c[2].provider_priority, 0 - c[2].confidence>>

\* valid[0] of DecisionArbitrator.choose (episode_replay, multi_episode_replay,
\* episode_arbitration): the filtered list is sorted and indexed without a check.
BaselineFirst(list) ==
    LET valid == ValidCandidates(list)
        sorted == SortedByKeys(valid, [i \in 1..Len(valid) |-> PriorityConfidenceKey(valid[i])])
    IN  IF sorted = <<>> THEN Raise("IndexError") ELSE Ok(sorted[1])

\* valid[0] of DecisionArbitrator.choose (replay_ab): raises when nothing is left.
BaselineABFirst(list) ==
    LET valid == ValidCandidates(list)
        sorted == SortedByKeys(valid,
                      [i \in 1..Len(valid) |-> ViolationPriorityConfidenceKey(valid[i])])
    IN  IF valid = <<>> THEN Raise("NoValidProposals") ELSE Ok(sorted[1])

ProposalOf(first) ==
    IF first.kind = "ok" THEN Ok(first.value[1]) ELSE first

BaselineChoose(list) == ProposalOf(BaselineFirst(list))

BaselineABChoose(list) == ProposalOf(BaselineABFirst(list))

----------------------------------------------------------------------------
(* Arbitration on arbitrary candidate lists *)

ArbIntents == {ASK, ABORT, SEND}

ArbConfidences == {60, 70}

ArbPriorities == {2, 3}

ArbArgs(intent) == [message |-> Str(intent)]

Candidates ==
    { <<DecisionProposal(i, ArbArgs(i), c), DecisionScore(c, v, n, p)>> :
        i \in ArbIntents, c \in ArbConfidences, v \in BOOLEAN,
        n \in {0, 1}, p \in ArbPriorities }

CandidateLists == UNION { [1..n -> Candidates] : n \in 0..MaxCands }

NoCall == [op |-> "none"]

\* no call of replay_episode or run_online_episode is running
NoThreads ==
    [replay |-> [p \in {1, 2} |->
                   [pc |-> "idle", k |-> 0, arb |-> "none", i |-> 0, intents |-> <<>>,
                    overlapped |-> FALSE, out |-> NoCall]],
     scored |-> [p \in {1, 2} |-> <<>>],
     online |-> [pc |-> "idle", ep |-> NoCall]]

IdleArb ==
    /\ scored = <<>> /\ arbCall = NoCall
    /\ rng = 0 /\ seeded = -1 /\ prevRandom = NoCall
    /\ scoreArgs = NoCall /\ scoreCall = NoCall

IdleOnline ==
    /\ corpus = <<>> /\ corpusArb = <<>> /\ onlineCall = NoCall /\ replayCall = NoCall
    /\ batchCall = NoCall /\ batchPrev = NoCall
    /\ par = NoThreads

IdleSer ==
    /\ memEpisode = [cls |-> "Episode", steps |-> <<>>]
    /\ doc = [steps |-> <<>>]
    /\ docState = "none"
    /\ loadCall = NoCall

\* Scenario.bootstrap
Bootstrap ==
    [cls |-> "AgentState", status |-> "awaiting_user_confirmation",
     user_intent |-> "reschedule_meeting",
     meeting |-> [id |-> "m_123", time |-> "2026-01-06 10:00"],
     permissions |-> <<"send_email">>]

\* the initial world of __main__ (replay_ab)
BootstrapAB ==
    [cls |-> "AgentState", status |-> "awaiting_user_confirmation",
     user_intent |-> "reschedule_meeting",
     meeting |-> [id |-> "m_123", time |-> "2026-01-06 10:00"]]

IdleRun ==
    /\ state = Bootstrap
    /\ episode = [cls |-> "Episode", steps |-> <<>>]
    /\ cycles = 0
    /\ runCall = NoCall
    /\ abState = BootstrapAB
    /\ abEpisode = [cls |-> "Episode", steps |-> <<>>]

InitArb ==
    /\ scored \in CandidateLists
    /\ arbCall = NoCall
    /\ rng = 0 /\ seeded = -1 /\ prevRandom = NoCall
    /\ scoreArgs = NoCall /\ scoreCall = NoCall
    /\ IdleOnline
    /\ IdleSer
    /\ IdleRun

ChooseBaseline ==
    /\ arbCall' = [op |-> "choose", arb |-> "baseline", passed |-> scored,
                   first |-> BaselineFirst(scored), out |-> BaselineChoose(scored)]
    /\ UNCHANGED <<scored, rng, seeded, prevRandom, scoreArgs, scoreCall>>
    /\ UNCHANGED <<varsOnline, varsSer, varsRun>>

ChooseBaselineAB ==
    /\ arbCall' = [op |-> "choose", arb |-> "baseline_ab", passed |-> scored,
                   first |-> BaselineABFirst(scored), out |-> BaselineABChoose(scored)]
    /\ UNCHANGED <<scored, rng, seeded, prevRandom, scoreArgs, scoreCall>>
    /\ UNCHANGED <<varsOnline, varsSer, varsRun>>

----------------------------------------------------------------------------
(* Claims on the Baseline Arbitrator *)

BaselineArbs == {"baseline", "baseline_ab"}

ListIndices(list) == 1..Len(list)

\* C1: whenever the Baseline Arbitrator returns a proposal, the candidate it
\* selected is one of the list passed, its score has intent_valid = true and
\* constraint_violation = 0, and the value returned is that candidate's
\* proposal, whatever the confidences of the other candidates.
C1_BaselineReturnsOnlyValid ==
    (arbCall.op = "choose" /\ arbCall.arb \in BaselineArbs /\ arbCall.out.kind = "ok") =>
        /\ \E i \in ListIndices(arbCall.passed) : arbCall.passed[i] = arbCall.first.value
        /\ arbCall.first.value[2].intent_valid = TRUE
        /\ arbCall.first.value[2].constraint_violation = 0
        /\ arbCall.out.value = arbCall.first.value[1]

\* A call in which a candidate with a violated constraint or a non-permitted
\* intent has a confidence strictly above every other candidate's, and the
\* arbitrator returned another one.
C1_Witness ==
    /\ arbCall.op = "choose" /\ arbCall.arb \in BaselineArbs
    /\ arbCall.out.kind = "ok"
    /\ \E i \in ListIndices(arbCall.passed) :
          /\ arbCall.passed[i][2].constraint_violation > 0 \/ ~arbCall.passed[i][2].intent_valid
          /\ \A j \in ListIndices(arbCall.passed) \ {i} :
                arbCall.passed[j][2].confidence < arbCall.passed[i][2].confidence
          /\ arbCall.out.value # arbCall.passed[i][1]

\* The error the arbitrator signals for an empty pool: replay_ab raises
\* RuntimeError("No valid proposals").
NoValidCandidate == "NoValidProposals"

NoneValid(list) ==
    \A i \in ListIndices(list) :
        ~(list[i][2].intent_valid /\ list[i][2].constraint_violation = 0)

\* C2: when no candidate has intent_valid = true and constraint_violation = 0
\* (an empty list included), the Baseline Arbitrator's choose fails with the
\* NoValidCandidate error.
C2_EmptyPoolRaisesNoValidCandidate ==
    (arbCall.op = "choose" /\ arbCall.arb \in BaselineArbs /\ NoneValid(arbCall.passed)) =>
        arbCall.out = Raise(NoValidCandidate)

ScenarioA ==
    << <<DecisionProposal(ASK, ArbArgs(ASK), 70), DecisionScore(70, TRUE, 0, 3)>>,
       <<DecisionProposal(ABORT, ArbArgs(ABORT), 60), DecisionScore(60, TRUE, 0, 2)>> >>

\* C3: among the candidates with intent_valid = true and constraint_violation = 0
\* the Baseline Arbitrator returns one of highest provider_priority and, among
\* those, one of highest confidence; on scenario A (Rule: AskForConfirmation,
\* 0.7, priority 3; Abort: Abort, 0.6, priority 2) it returns AskForConfirmation.
C3_BaselinePrefersPriorityThenConfidence ==
    (arbCall.op = "choose" /\ arbCall.arb \in BaselineArbs /\ arbCall.out.kind = "ok") =>
        /\ \A i \in ListIndices(arbCall.passed) :
              (arbCall.passed[i][2].intent_valid
                 /\ arbCall.passed[i][2].constraint_violation = 0) =>
                  /\ arbCall.passed[i][2].provider_priority
                        <= arbCall.first.value[2].provider_priority
                  /\ (arbCall.passed[i][2].provider_priority
                        = arbCall.first.value[2].provider_priority) =>
                        arbCall.passed[i][2].confidence
                          <= arbCall.first.value[2].confidence
        /\ arbCall.out.value = arbCall.first.value[1]
        /\ (arbCall.passed = ScenarioA) => arbCall.out.value.intent = ASK

\* Scenario A was arbitrated and AskForConfirmation returned.
C3_Witness ==
    /\ arbCall.op = "choose" /\ arbCall.arb \in BaselineArbs
    /\ arbCall.passed = ScenarioA
    /\ arbCall.out.kind = "ok"
    /\ arbCall.out.value.intent = ASK

\* the earliest candidate of list that is valid and that no valid candidate
\* beats on priority, then confidence
EarliestBest(list) ==
    LET valid == {i \in ListIndices(list) :
                     list[i][2].intent_valid /\ list[i][2].constraint_violation = 0}
        best == {i \in valid : \A j \in valid :
                    \/ list[j][2].provider_priority < list[i][2].provider_priority
                    \/ /\ list[j][2].provider_priority = list[i][2].provider_priority
                       /\ list[j][2].confidence <= list[i][2].confidence}
    IN  CHOOSE i \in best : \A j \in best : i <= j

\* C26: the two Baseline variants are equivalent: for every candidate list
\* with at least one candidate with intent_valid = true and
\* constraint_violation = 0, the variant sorting by (constraint_violation,
\* -priority, -confidence) and the variant sorting by (-priority, -confidence)
\* both return the earliest candidate of the input among the valid ones of
\* highest priority and then highest confidence, hence the same candidate.
C26_BaselineVariantsAgree ==
    (arbCall.op = "choose" /\ arbCall.arb \in BaselineArbs /\ ~NoneValid(arbCall.passed)) =>
        /\ arbCall.first = Ok(arbCall.passed[EarliestBest(arbCall.passed)])
        /\ arbCall.out = Ok(arbCall.passed[EarliestBest(arbCall.passed)][1])

\* The replay_ab variant was handed two valid candidates tied on priority and
\* confidence that propose different intents, and returned the first.
C26_Witness ==
    /\ arbCall.op = "choose" /\ arbCall.arb = "baseline_ab"
    /\ Len(arbCall.passed) = 2
    /\ ~NoneValid(<<arbCall.passed[1]>>) /\ ~NoneValid(<<arbCall.passed[2]>>)
    /\ arbCall.passed[1][2].provider_priority = arbCall.passed[2][2].provider_priority
    /\ arbCall.passed[1][2].confidence = arbCall.passed[2][2].confidence
    /\ arbCall.passed[1][1].intent # arbCall.passed[2][1].intent
    /\ arbCall.out = Ok(arbCall.passed[1][1])

----------------------------------------------------------------------------
(* Online runs and offline replay (episode_replay, multi_episode_replay)   *)

AgentState(status, user_intent, meeting_time) ==
    [cls |-> "AgentState", status |-> status, user_intent |-> user_intent,
     meeting_time |-> meeting_time]

DecisionInput(observable_state, allowed_intents, constraints) ==
    [cls |-> "DecisionInput", observable_state |-> observable_state,
     allowed_intents |-> allowed_intents, constraints |-> constraints]

\* an EpisodeStep built with the scores of the first provider only
EpisodeStepFirstScoreOnly(state_snapshot, decision_input, proposals, scores, chosen_intent) ==
    [cls |-> "EpisodeStep", state_snapshot |-> state_snapshot,
     decision_input |-> decision_input, proposals |-> proposals,
     scores |-> SubSeq(scores, 1, 1), chosen_intent |-> chosen_intent]

EpisodeStep(state_snapshot, decision_input, proposals, scores, chosen_intent) ==
    [cls |-> "EpisodeStep", state_snapshot |-> state_snapshot,
     decision_input |-> decision_input, proposals |-> proposals,
     scores |-> scores, chosen_intent |-> chosen_intent]

Episode(steps) == [cls |-> "Episode", steps |-> steps]

InList(x, list) == \E i \in 1..Len(list) : list[i] = x

\* d[k] = v on an insertion-ordered dict
DictSet(d, k, v) ==
    IF \E i \in 1..Len(d) : d[i][1] = k
    THEN [i \in 1..Len(d) |-> IF d[i][1] = k THEN <<k, v>> ELSE d[i]]
    ELSE Append(d, <<k, v>>)

Keys(d) == [i \in 1..Len(d) |-> d[i][1]]

Values(d) == [i \in 1..Len(d) |-> d[i][2]]

KeySet(d) == {d[i][1] : i \in 1..Len(d)}

Min(a, b) == IF a <= b THEN a ELSE b

Zip(a, b) == [i \in 1..Min(Len(a), Len(b)) |-> <<a[i], b[i]>>]

\* random.uniform(0.4, 0.95): its two ends, one below the rule and abort
\* providers' confidences and one above them
LLMConfidences == {40, 95}

LLMIntents == {ASK, SEND}

LLMDraws == LLMIntents \X LLMConfidences

\* the rule provider returning the abort provider's proposal
ProposeAbortForRule(name, draw) ==
    IF name = "llm"
    THEN DecisionProposal(draw[1],
             [message |-> Str(IF draw[1] = ASK THEN "LLM suggests AskForConfirmation"
                              ELSE "LLM suggests SendRescheduleEmail")],
             draw[2])
    ELSE DecisionProposal(ABORT, [reason |-> Str("User intent unclear")], 60)

Propose(name, draw) ==
    CASE name = "llm" ->
           \* args={"message": f"LLM suggests {intent}"}
           DecisionProposal(draw[1],
               [message |-> Str(IF draw[1] = ASK THEN "LLM suggests AskForConfirmation"
                                ELSE "LLM suggests SendRescheduleEmail")],
               draw[2])
      [] name = "rule" ->
           DecisionProposal(ASK, [message |-> Str("Rule: please confirm first")], 70)
      [] name = "abort" ->
           DecisionProposal(ABORT, [reason |-> Str("User intent unclear")], 60)

\* the table with the ranks of rule and llm exchanged
ProviderPriorityLLMFirst(provider_name) ==
    CASE provider_name = "rule" -> 1
      [] provider_name = "abort" -> 2
      [] provider_name = "llm" -> 3
      [] OTHER -> 0

ProviderPriority(provider_name) ==
    CASE provider_name = "rule" -> 3
      [] provider_name = "abort" -> 2
      [] provider_name = "llm" -> 1
      [] OTHER -> 0

\* the scorer with the intent test of the no-email rule left out
ScoreCountingAnyIntent(proposal, decision_input, provider_name) ==
    DecisionScore(
        proposal.confidence,
        InList(proposal.intent, decision_input.allowed_intents),
        IF InList(NoEmailConstraint, decision_input.constraints) THEN 1 ELSE 0,
        ProviderPriority(provider_name))

Score(proposal, decision_input, provider_name) ==
    DecisionScore(
        proposal.confidence,
        InList(proposal.intent, decision_input.allowed_intents),
        IF proposal.intent = SEND /\ InList(NoEmailConstraint, decision_input.constraints)
        THEN 1 ELSE 0,
        ProviderPriority(provider_name))

\* the key without its minus sign: an ascending sort
AscendingConfidenceKey(c) == <<c[2].confidence>>

ConfidenceKey(c) == <<0 - c[2].confidence>>

\* ConfidenceOnlyArbitrator.choose: sorts the list it is given in place
ConfidenceOnlySorted(list) ==
    SortedByKeys(list, [i \in 1..Len(list) |-> ConfidenceKey(list[i])])

ConfidenceOnlyChoose(list) ==
    IF list = <<>> THEN Raise("IndexError") ELSE Ok(ConfidenceOnlySorted(list)[1][1])

Choose(arb, list) ==
    CASE arb = "baseline" -> BaselineChoose(list)
      [] arb = "confidence_only" -> ConfidenceOnlyChoose(list)

\* The random module's generator, abstracted to a counter: a draw reads the
\* state and advances it.
RngStates == 0..(RngMod - 1)

NextRng(s) == (s + 1) % RngMod

\* RandomArbitrator.choose: random.choice(scored)[0], on the draw it consumes
RandomChoose(list, r) ==
    IF list = <<>> THEN Raise("IndexError") ELSE Ok(list[(r % Len(list)) + 1][1])

\* arbitrator.choose(...) for the three arbitrators of episode_arbitration
ChooseWith(arb, list, r) ==
    IF arb = "random" THEN RandomChoose(list, r) ELSE Choose(arb, list)

OnlineState == AgentState("awaiting_user_confirmation", "reschedule_meeting", "2026-01-06 10:00")

OnlineInput ==
    DecisionInput(
        [status |-> OnlineState.status, meeting_time |-> OnlineState.meeting_time],
        <<ASK, SEND, ABORT>>,
        <<NoEmailConstraint>>)

\* the provider loop of run_online_episode: the dicts and the list after the
\* first n providers
RECURSIVE Gather(_, _, _, _)
Gather(providers, draw, decision_input, n) ==
    IF n = 0 THEN [proposals |-> <<>>, scores |-> <<>>, scored_list |-> <<>>]
    ELSE LET sofar == Gather(providers, draw, decision_input, n - 1)
             name == providers[n]
             proposal == Propose(name, draw)
             score == Score(proposal, decision_input, name)
         IN  [proposals |-> DictSet(sofar.proposals, name, proposal),
              scores |-> DictSet(sofar.scores, name, score),
              scored_list |-> Append(sofar.scored_list, <<proposal, score>>)]

RunOnlineEpisode(providers, draw, arb) ==
    LET g == Gather(providers, draw, OnlineInput, Len(providers))
        chosen == Choose(arb, g.scored_list)
    IN  IF chosen.kind # "ok" THEN chosen
        ELSE Ok(Episode(<<EpisodeStep(OnlineState, OnlineInput, g.proposals,
                                      g.scores, chosen.value.intent)>>))

\* the list replay_episode builds from a stored step, with the scores taken
\* in reverse order
StepScoredReversed(step) ==
    LET v == Values(step.scores)
    IN  Zip(Values(step.proposals), [i \in 1..Len(v) |-> v[Len(v) + 1 - i]])

StepScored(step) == Zip(Values(step.proposals), Values(step.scores))

RECURSIVE ReplayIntents(_, _, _)
ReplayIntents(steps, arb, n) ==
    IF n = 0 THEN Ok(<<>>)
    ELSE LET sofar == ReplayIntents(steps, arb, n - 1)
         IN  IF sofar.kind # "ok" THEN sofar
             ELSE LET chosen == Choose(arb, StepScored(steps[n]))
                  IN  IF chosen.kind # "ok" THEN chosen
                      ELSE Ok(Append(sofar.value, chosen.value.intent))

ReplayEpisode(ep, arb) == ReplayIntents(ep.steps, arb, Len(ep.steps))

\* The provider list is the harness's configuration; the source runs
\* <<"llm", "rule", "abort">>.
ProviderLists ==
    { <<"llm", "rule", "abort">>, <<"rule">>, <<"llm", "abort">>, <<"llm">> }

Arbitrators == {"baseline", "confidence_only"}

InitOnline ==
    /\ IdleArb
    /\ IdleOnline
    /\ IdleSer
    /\ IdleRun

OnlineRun ==
    /\ Len(corpus) < MaxEpisodes
    /\ \E providers \in ProviderLists, draw \in LLMDraws, arb \in Arbitrators :
         LET r == RunOnlineEpisode(providers, draw, arb)
         IN  /\ onlineCall' = [op |-> "run_online_episode", arb |-> arb,
                                providers |-> providers,
                                chosen |-> Choose(arb, Gather(providers, draw, OnlineInput,
                                                              Len(providers)).scored_list),
                                out |-> r.kind]
             /\ corpus' = IF r.kind = "ok" THEN Append(corpus, r.value) ELSE corpus
             /\ corpusArb' = IF r.kind = "ok" THEN Append(corpusArb, arb) ELSE corpusArb
    /\ UNCHANGED <<replayCall, batchCall, batchPrev, par>>
    /\ UNCHANGED <<varsArb, varsSer, varsRun>>

\* replay_episode with the Random Arbitrator; r is the generator state it finds
ReplayRandomIntents(ep, r) ==
    LET RECURSIVE Intents(_)
        Intents(n) ==
            IF n = 0 THEN Ok(<<>>)
            ELSE LET sofar == Intents(n - 1)
                 IN  IF sofar.kind # "ok" THEN sofar
                     ELSE LET chosen == RandomChoose(StepScored(ep.steps[n]),
                                                     r + n - 1)
                          IN  IF chosen.kind # "ok" THEN chosen
                              ELSE Ok(Append(sofar.value, chosen.value.intent))
    IN  Intents(Len(ep.steps))

\* the stored step after a replay whose list aliased the step's mappings: the
\* in-place sort of the Confidence-only Arbitrator reorders them
StepSortedByReplay(step, arb) ==
    IF arb # "confidence_only" THEN step
    ELSE LET keys == [i \in 1..Len(step.scores) |-> <<0 - step.scores[i][2].confidence>>]
         IN  [step EXCEPT !.proposals = SortedByKeys(step.proposals, keys),
                          !.scores = SortedByKeys(step.scores, keys)]

\* the stored step after replay_episode: scored is a new list built by
\* list(zip(...)), so what choose does to it does not reach the step
StepAfterReplay(step, arb) == step

Replay ==
    /\ \E k \in 1..Len(corpus), arb \in Arbitrators :
         /\ replayCall' = [op |-> "replay_episode", arb |-> arb, episode |-> k,
                           out |-> ReplayEpisode(corpus[k], arb)]
         /\ corpus' = [corpus EXCEPT ![k].steps =
                          [i \in 1..Len(@) |-> StepAfterReplay(@[i], arb)]]
    /\ UNCHANGED <<corpusArb, onlineCall, batchCall, batchPrev, par>>
    /\ UNCHANGED <<varsArb, varsSer, varsRun>>

ReplayRandom ==
    /\ \E k \in 1..Len(corpus), r \in RngStates :
         /\ replayCall' = [op |-> "replay_episode", arb |-> "random", episode |-> k,
                           out |-> ReplayRandomIntents(corpus[k], r)]
         /\ corpus' = [corpus EXCEPT ![k].steps =
                          [i \in 1..Len(@) |-> StepAfterReplay(@[i], "random")]]
    /\ UNCHANGED <<corpusArb, onlineCall, batchCall, batchPrev, par>>
    /\ UNCHANGED <<varsArb, varsSer, varsRun>>

\* The loop of the batch harness: episodes.append(run_online_episode(online_arb))
\* with online_arb = DecisionArbitrator(); a run that raises ends the harness.
BatchOnlineRun ==
    /\ Len(corpus) < MaxEpisodes
    /\ \E providers \in ProviderLists, draw \in LLMDraws :
         LET r == RunOnlineEpisode(providers, draw, "baseline")
         IN  /\ r.kind = "ok"
             /\ corpus' = Append(corpus, r.value)
             /\ corpusArb' = Append(corpusArb, "baseline")
    /\ UNCHANGED <<onlineCall, replayCall, batchCall, batchPrev, par>>
    /\ UNCHANGED <<varsArb, varsSer, varsRun>>

SpecReplay == InitOnline /\ [][BatchOnlineRun \/ Replay \/ ReplayRandom]_vars

NextOnline ==
    \/ OnlineRun
    \/ Replay

SpecOnline == InitOnline /\ [][NextOnline]_vars

ChosenIntents(ep) == [i \in 1..Len(ep.steps) |-> ep.steps[i].chosen_intent]

\* C4: replaying, with the Baseline Arbitrator, an episode whose steps an online
\* run produced with the Baseline Arbitrator returns exactly the recorded
\* chosen_intent of each step.
C4_BaselineReplayReproducesChosenIntent ==
    (replayCall.op = "replay_episode" /\ replayCall.arb = "baseline" /\ corpusArb[replayCall.episode] = "baseline") =>
        replayCall.out = Ok(ChosenIntents(corpus[replayCall.episode]))

\* A baseline replay of a baseline-produced step without the rule provider, in
\* which the stochastic provider proposed the email intent with the highest
\* confidence of the step.
C4_Witness ==
    /\ replayCall.op = "replay_episode" /\ replayCall.arb = "baseline"
    /\ corpusArb[replayCall.episode] = "baseline"
    /\ replayCall.out.kind = "ok"
    /\ LET step == corpus[replayCall.episode].steps[1]
       IN  /\ Keys(step.proposals) = <<"llm", "abort">>
           /\ step.proposals[1][2].intent = SEND
           /\ step.proposals[1][2].confidence = 95
           /\ replayCall.out.value = <<ABORT>>

(* The replay passes of the batch harness (__main__ of episode_replay and  *)
(* multi_episode_replay)                                                   *)

\* "results = ..." written for results.extend(...)
ExtendReplacing(results, more) == more

\* results.extend(more)
Extend(results, more) == results \o more

\* for ep in episodes: results.extend(replay_episode(ep, arb)), then
\* Counter(results): the frequency table of the first n episodes
ReplayTable(episodes, arb, n) ==
    LET RECURSIVE Results(_)
        Results(k) ==
            IF k = 0 THEN Ok(<<>>)
            ELSE LET sofar == Results(k - 1)
                 IN  IF sofar.kind # "ok" THEN sofar
                     ELSE LET intents == ReplayEpisode(episodes[k], arb)
                          IN  IF intents.kind # "ok" THEN intents
                              ELSE Ok(Extend(sofar.value, intents.value))
        results == Results(n)
    IN  IF results.kind # "ok" THEN results
        ELSE Ok([x \in {results.value[i] : i \in 1..Len(results.value)} |->
                    Cardinality({i \in 1..Len(results.value) : results.value[i] = x})])

\* One replay pass over the corpus as frozen when it held n episodes.
ReplayCorpus ==
    /\ \E n \in 1..Len(corpus), arb \in Arbitrators :
         /\ batchCall' = [op |-> "replay_corpus", arb |-> arb, n |-> n,
                          out |-> ReplayTable(corpus, arb, n)]
         /\ corpus' = [k \in 1..Len(corpus) |->
                          IF k > n THEN corpus[k]
                          ELSE [corpus[k] EXCEPT !.steps =
                                  [i \in 1..Len(@) |-> StepAfterReplay(@[i], arb)]]]
    /\ batchPrev' = batchCall
    /\ UNCHANGED <<corpusArb, onlineCall, replayCall, par>>
    /\ UNCHANGED <<varsArb, varsSer, varsRun>>

SpecBatch == InitOnline /\ [][BatchOnlineRun \/ ReplayCorpus]_vars

SumOfCounts(table) ==
    LET RECURSIVE Sum(_)
        Sum(D) == IF D = {} THEN 0
                  ELSE LET x == CHOOSE x \in D : TRUE IN table[x] + Sum(D \ {x})
    IN  Sum(DOMAIN table)

StoredSteps(episodes, n) ==
    LET RECURSIVE Steps(_)
        Steps(k) == IF k = 0 THEN 0 ELSE Steps(k - 1) + Len(episodes[k].steps)
    IN  Steps(n)

C24_StepMappingsJoinOnProviderIdentity ==
    /\ \A k \in 1..Len(corpus) : \A i \in 1..Len(corpus[k].steps) :
          LET step == corpus[k].steps[i]
              input == step.decision_input
          IN  /\ KeySet(step.proposals) = KeySet(step.scores)
              /\ Len(step.proposals) = Cardinality(KeySet(step.proposals))
              /\ Len(step.scores) = Cardinality(KeySet(step.scores))
              /\ \A a \in 1..Len(step.proposals) : \A b \in 1..Len(step.scores) :
                    step.proposals[a][1] = step.scores[b][1] =>
                        LET name == step.proposals[a][1]
                            pr == step.proposals[a][2]
                            sc == step.scores[b][2]
                        IN  /\ sc.confidence = pr.confidence
                            /\ sc.intent_valid =
                                   (\E x \in 1..Len(input.allowed_intents) :
                                       input.allowed_intents[x] = pr.intent)
                            /\ sc.constraint_violation =
                                   (IF pr.intent = SEND
                                       /\ \E x \in 1..Len(input.constraints) :
                                              input.constraints[x] = NoEmailConstraint
                                    THEN 1 ELSE 0)
                            /\ sc.provider_priority =
                                   (CASE name = "rule" -> 3
                                      [] name = "abort" -> 2
                                      [] name = "llm" -> 1
                                      [] OTHER -> 0)
    /\ (onlineCall.op = "run_online_episode" /\ onlineCall.out = "ok") =>
          \A i \in 1..Len(corpus[Len(corpus)].steps) :
              KeySet(corpus[Len(corpus)].steps[i].proposals)
                 = {onlineCall.providers[j] : j \in 1..Len(onlineCall.providers)}

\* The step of a cycle that consulted the llm, rule and abort providers, the
\* llm proposing the email at 0.95: its score records one violation.
C24_Witness ==
    /\ onlineCall.op = "run_online_episode" /\ onlineCall.out = "ok"
    /\ onlineCall.providers = <<"llm", "rule", "abort">>
    /\ LET step == corpus[Len(corpus)].steps[1]
       IN  /\ Keys(step.scores) = <<"llm", "rule", "abort">>
           /\ step.proposals[1][2].intent = SEND
           /\ step.proposals[1][2].confidence = 95
           /\ step.scores[1][2].constraint_violation = 1
           /\ step.scores[2][2].provider_priority = 3

\* C30: in every online cycle of run_online_episode with the llm, rule and
\* abort providers and the Baseline Arbitrator, the chosen proposal is the Rule
\* provider's and chosen_intent is AskForConfirmation, for every intent and
\* confidence the stochastic provider produces.
C30_BaselineAlwaysChoosesRule ==
    /\ (onlineCall.op = "run_online_episode" /\ onlineCall.arb = "baseline"
           /\ onlineCall.providers = <<"llm", "rule", "abort">>) =>
          /\ onlineCall.out = "ok"
          /\ onlineCall.chosen =
                [kind |-> "ok",
                 value |-> [cls |-> "DecisionProposal", intent |-> ASK,
                            args |-> [message |->
                                        [type |-> "str", val |-> "Rule: please confirm first"]],
                            confidence |-> 70]]
          /\ corpus[Len(corpus)].steps[1].proposals[2] = <<"rule", onlineCall.chosen.value>>
    /\ \A k \in 1..Len(corpus) :
          (corpusArb[k] = "baseline"
             /\ Keys(corpus[k].steps[1].proposals) = <<"llm", "rule", "abort">>) =>
              /\ Len(corpus[k].steps) = 1
              /\ corpus[k].steps[1].chosen_intent = ASK

\* The stochastic provider proposed AskForConfirmation at 0.95, valid and
\* above the Rule provider's 0.7, and the rule proposal was chosen.
C30_Witness ==
    /\ onlineCall.op = "run_online_episode" /\ onlineCall.arb = "baseline"
    /\ onlineCall.providers = <<"llm", "rule", "abort">>
    /\ onlineCall.out = "ok"
    /\ LET step == corpus[Len(corpus)].steps[1]
       IN  /\ step.proposals[1][2].intent = ASK
           /\ step.proposals[1][2].confidence = 95
           /\ step.scores[1][2].intent_valid
           /\ step.scores[1][2].constraint_violation = 0
           /\ onlineCall.chosen.value = step.proposals[2][2]
           /\ onlineCall.chosen.value # step.proposals[1][2]
           /\ step.chosen_intent = ASK

\* C18: online cycles run with only the Rule provider and the Baseline
\* Arbitrator all succeed and record chosen_intent = AskForConfirmation in
\* every step, however many are run.
C18_RuleOnlyBaselineAlwaysAsks ==
    /\ (onlineCall.op = "run_online_episode" /\ onlineCall.arb = "baseline"
           /\ onlineCall.providers = <<"rule">>) => onlineCall.out = "ok"
    /\ \A k \in 1..Len(corpus) :
          (corpusArb[k] = "baseline"
             /\ \A i \in 1..Len(corpus[k].steps) :
                   Keys(corpus[k].steps[i].proposals) = <<"rule">>) =>
              \A i \in 1..Len(corpus[k].steps) :
                  corpus[k].steps[i].chosen_intent = ASK

\* A corpus of at least two cycles, every one run with the Rule provider alone
\* under the Baseline Arbitrator, every one recording AskForConfirmation.
C18_Witness ==
    /\ Len(corpus) >= 2
    /\ \A k \in 1..Len(corpus) :
          /\ corpusArb[k] = "baseline"
          /\ Len(corpus[k].steps) = 1
          /\ Keys(corpus[k].steps[1].proposals) = <<"rule">>
          /\ corpus[k].steps[1].chosen_intent = ASK

----------------------------------------------------------------------------
(* Serialization (episode_replay): Episode <-> persisted document          *)

\* dataclasses.asdict on a dataclass whose fields hold no dataclass
asdictWithoutConfidence(obj) == [k \in DOMAIN obj \ {"cls", "confidence"} |-> obj[k]]

asdict(obj) == [k \in DOMAIN obj \ {"cls"} |-> obj[k]]

AgentStateFields == {"status", "user_intent", "meeting_time"}

DecisionInputFields == {"observable_state", "allowed_intents", "constraints"}

DecisionProposalFields == {"intent", "args", "confidence"}

DecisionScoreFields == {"confidence", "intent_valid", "constraint_violation", "provider_priority"}

\* cls(**d): a TypeError unless d's keys are exactly the fields (none has a default)
FromDict(cls, fields, d) ==
    IF DOMAIN d = fields
    THEN Ok([k \in fields \cup {"cls"} |-> IF k = "cls" THEN cls ELSE d[k]])
    ELSE Raise("TypeError")

\* {k: cls(**v) for k, v in items}
FromDictEach(cls, fields, items) ==
    IF \E i \in 1..Len(items) : DOMAIN items[i][2] # fields
    THEN Raise("TypeError")
    ELSE Ok([i \in 1..Len(items) |->
                <<items[i][1], FromDict(cls, fields, items[i][2]).value>>])

SerializeStep(step) ==
    [state_snapshot |-> asdict(step.state_snapshot),
     decision_input |-> asdict(step.decision_input),
     proposals |-> [i \in 1..Len(step.proposals) |->
                      <<step.proposals[i][1], asdict(step.proposals[i][2])>>],
     scores |-> [i \in 1..Len(step.scores) |->
                   <<step.scores[i][1], asdict(step.scores[i][2])>>],
     chosen_intent |-> step.chosen_intent]

serialize_episode(ep) ==
    [steps |-> [i \in 1..Len(ep.steps) |-> SerializeStep(ep.steps[i])]]

\* the EpisodeStep(...) call of deserialize_episode; its arguments are
\* evaluated in order and the first failure is the one raised
DeserializeStep(s) ==
    IF "state_snapshot" \notin DOMAIN s THEN Raise("KeyError") ELSE
    LET st == FromDict("AgentState", AgentStateFields, s.state_snapshot) IN
    IF st.kind # "ok" THEN st ELSE
    IF "decision_input" \notin DOMAIN s THEN Raise("KeyError") ELSE
    LET di == FromDict("DecisionInput", DecisionInputFields, s.decision_input) IN
    IF di.kind # "ok" THEN di ELSE
    IF "proposals" \notin DOMAIN s THEN Raise("KeyError") ELSE
    LET ps == FromDictEach("DecisionProposal", DecisionProposalFields, s.proposals) IN
    IF ps.kind # "ok" THEN ps ELSE
    IF "scores" \notin DOMAIN s THEN Raise("KeyError") ELSE
    LET sc == FromDictEach("DecisionScore", DecisionScoreFields, s.scores) IN
    IF sc.kind # "ok" THEN sc ELSE
    IF "chosen_intent" \notin DOMAIN s THEN Raise("KeyError") ELSE
    Ok(EpisodeStep(st.value, di.value, ps.value, sc.value, s.chosen_intent))

RECURSIVE DeserializeSteps(_, _)
DeserializeSteps(list, n) ==
    IF n = 0 THEN Ok(<<>>)
    ELSE LET sofar == DeserializeSteps(list, n - 1)
         IN  IF sofar.kind # "ok" THEN sofar
             ELSE LET step == DeserializeStep(list[n])
                  IN  IF step.kind # "ok" THEN step
                      ELSE Ok(Append(sofar.value, step.value))

deserialize_episode(data) ==
    LET steps == DeserializeSteps(data.steps, Len(data.steps))
    IN  IF steps.kind # "ok" THEN steps ELSE Ok(Episode(steps.value))

(* Episodes to save: steps over two world states, two provider lists and   *)
(* two recorded intents.                                                    *)

SerStates ==
    { AgentState("awaiting_user_confirmation", "reschedule_meeting", "2026-01-06 10:00"),
      AgentState("waiting_user_response", "reschedule_meeting", "2026-01-06 10:00") }

SerGathers ==
    { Gather(<<"llm", "rule", "abort">>, <<SEND, 95>>, OnlineInput, 3),
      Gather(<<"rule">>, <<ASK, 40>>, OnlineInput, 1) }

SerSteps ==
    { EpisodeStep(st, OnlineInput, g.proposals, g.scores, ci) :
        st \in SerStates, g \in SerGathers, ci \in {ASK, ABORT} }

SerEpisodes == { Episode(steps) : steps \in UNION { [1..n -> SerSteps] : n \in 0..MaxSteps } }

(* Changes of a persisted step: a key removed from the step, from one of   *)
(* its nested objects or from one entry of a mapping, an entry removed     *)
(* from a mapping, a mapping's entries reordered.                          *)

DropKey(d, k) == [x \in DOMAIN d \ {k} |-> d[x]]

RemoveAt(list, i) == SubSeq(list, 1, i - 1) \o SubSeq(list, i + 1, Len(list))

Reversed(list) == [i \in 1..Len(list) |-> list[Len(list) + 1 - i]]

StepFields == {"state_snapshot", "decision_input", "proposals", "scores", "chosen_intent"}

Mappings == {"proposals", "scores"}

NestedFields(f) ==
    CASE f = "state_snapshot" -> AgentStateFields
      [] f = "decision_input" -> DecisionInputFields
      [] f = "proposals" -> DecisionProposalFields
      [] f = "scores" -> DecisionScoreFields

Edits ==
    [op : {"drop_field"}, field : StepFields]
    \cup { [op |-> "drop_nested", field |-> f, key |-> k] :
             f \in {"state_snapshot", "decision_input"},
             k \in AgentStateFields \cup DecisionInputFields }
    \cup { [op |-> "drop_entry_key", field |-> f, at |-> i, key |-> k] :
             f \in Mappings, i \in 1..3,
             k \in DecisionProposalFields \cup DecisionScoreFields }
    \cup [op : {"remove_entry"}, field : Mappings, at : 1..3]
    \cup [op : {"reverse"}, field : Mappings]

EditApplies(s, e) ==
    CASE e.op = "drop_field" -> TRUE
      [] e.op = "drop_nested" -> e.key \in NestedFields(e.field)
      [] e.op = "drop_entry_key" ->
           e.at <= Len(s[e.field]) /\ e.key \in NestedFields(e.field)
      [] e.op = "remove_entry" -> e.at <= Len(s[e.field])
      [] e.op = "reverse" -> Len(s[e.field]) > 1

EditStep(s, e) ==
    CASE e.op = "drop_field" -> DropKey(s, e.field)
      [] e.op = "drop_nested" -> [s EXCEPT ![e.field] = DropKey(@, e.key)]
      [] e.op = "drop_entry_key" ->
           [s EXCEPT ![e.field] = [@ EXCEPT ![e.at] = <<@[1], DropKey(@[2], e.key)>>]]
      [] e.op = "remove_entry" -> [s EXCEPT ![e.field] = RemoveAt(@, e.at)]
      [] e.op = "reverse" -> [s EXCEPT ![e.field] = Reversed(@)]

InitSer ==
    /\ IdleArb
    /\ IdleOnline
    /\ IdleRun
    /\ memEpisode \in SerEpisodes
    /\ doc = [steps |-> <<>>]
    /\ docState = "none"
    /\ loadCall = NoCall

Save ==
    /\ docState = "none"
    /\ doc' = serialize_episode(memEpisode)
    /\ docState' = "saved"
    /\ UNCHANGED <<memEpisode, loadCall>>
    /\ UNCHANGED <<varsArb, varsOnline, varsRun>>

\* The document is changed outside the program between save and load.
EditDocument ==
    /\ docState = "saved"
    /\ \E j \in 1..Len(doc.steps), e \in Edits :
         /\ EditApplies(doc.steps[j], e)
         /\ doc' = [steps |-> [doc.steps EXCEPT ![j] = EditStep(@, e)]]
    /\ docState' = "edited"
    /\ UNCHANGED <<memEpisode, loadCall>>
    /\ UNCHANGED <<varsArb, varsOnline, varsRun>>

Load ==
    /\ docState # "none"
    /\ loadCall' = [op |-> "deserialize_episode", source |-> docState, passed |-> doc,
                    out |-> deserialize_episode(doc)]
    /\ UNCHANGED <<memEpisode, doc, docState>>
    /\ UNCHANGED <<varsArb, varsOnline, varsRun>>

NextSer ==
    \/ Save
    \/ EditDocument
    \/ Load

SpecSer == InitSer /\ [][NextSer]_vars

\* C5: deserialize_episode(serialize_episode(e)) is field-wise equal to e: the
\* same steps in the same order, each with equal state snapshot, decision
\* input, proposals and scores by identity, and chosen_intent.
C5_RoundTrip ==
    (loadCall.op = "deserialize_episode" /\ loadCall.source = "saved") =>
        /\ loadCall.out.kind = "ok"
        /\ loadCall.out.value = memEpisode

\* An episode of at least two different steps went through the round trip.
C5_Witness ==
    /\ loadCall.op = "deserialize_episode"
    /\ loadCall.source = "saved"
    /\ loadCall.out.kind = "ok"
    /\ Len(memEpisode.steps) >= 2
    /\ memEpisode.steps[1] # memEpisode.steps[2]
    /\ Len(loadCall.out.value.steps) = Len(memEpisode.steps)

\* replay_episode on the episode deserialize_episode returned; lists holds
\* the list scored built for each step
ReplayLoaded ==
    /\ loadCall.op = "deserialize_episode" /\ loadCall.out.kind = "ok"
    /\ \E arb \in Arbitrators :
         LET ep == loadCall.out.value
         IN  replayCall' = [op |-> "replay_episode", arb |-> arb, episode |-> ep,
                            lists |-> [i \in 1..Len(ep.steps) |-> StepScored(ep.steps[i])],
                            out |-> ReplayEpisode(ep, arb)]
    /\ UNCHANGED <<corpus, corpusArb, onlineCall, batchCall, batchPrev, par>>
    /\ UNCHANGED <<varsArb, varsSer, varsRun>>

SpecLoadReplay == InitSer /\ [][Save \/ EditDocument \/ Load \/ ReplayLoaded]_vars

\* C27: for every stored step whose proposals and scores mappings have the
\* same key set, in whatever key order each mapping holds them, the candidate
\* list replay builds pairs each provider's proposal with the score stored
\* under the same provider identity.
C27_ReplayPairsByProviderIdentity ==
    (replayCall.op = "replay_episode" /\ "lists" \in DOMAIN replayCall) =>
        \A i \in 1..Len(replayCall.episode.steps) :
            LET step == replayCall.episode.steps[i]
                list == replayCall.lists[i]
            IN  KeySet(step.proposals) = KeySet(step.scores) =>
                    /\ Len(list) = Len(step.proposals)
                    /\ \A a \in 1..Len(step.proposals) : \A b \in 1..Len(step.scores) :
                          step.proposals[a][1] = step.scores[b][1] =>
                              \E j \in 1..Len(list) :
                                  list[j] = <<step.proposals[a][2], step.scores[b][2]>>

SchemaMismatch == "SchemaMismatch"

KeySetsDiffer(s) ==
    /\ Mappings \subseteq DOMAIN s
    /\ {s.proposals[i][1] : i \in 1..Len(s.proposals)}
         # {s.scores[i][1] : i \in 1..Len(s.scores)}

\* C6: deserializing a document in which some step's proposals key set differs
\* from its scores key set fails with SchemaMismatch and yields no Episode.
C6_KeySetMismatchRaisesSchemaMismatch ==
    (loadCall.op = "deserialize_episode"
       /\ \E j \in 1..Len(loadCall.passed.steps) : KeySetsDiffer(loadCall.passed.steps[j])) =>
        loadCall.out = Raise(SchemaMismatch)

LacksRequiredField(s) ==
    \/ ~(StepFields \subseteq DOMAIN s)
    \/ "state_snapshot" \in DOMAIN s /\ ~(AgentStateFields \subseteq DOMAIN s.state_snapshot)
    \/ "decision_input" \in DOMAIN s /\ ~(DecisionInputFields \subseteq DOMAIN s.decision_input)
    \/ "proposals" \in DOMAIN s
         /\ \E i \in 1..Len(s.proposals) :
              ~(DecisionProposalFields \subseteq DOMAIN s.proposals[i][2])
    \/ "scores" \in DOMAIN s
         /\ \E i \in 1..Len(s.scores) :
              ~(DecisionScoreFields \subseteq DOMAIN s.scores[i][2])

\* C7: deserializing a document in which a step lacks a required field
\* (state_snapshot, decision_input, proposals, scores, chosen_intent, or a
\* required field nested in them) fails with SchemaMismatch and yields no Episode.
C7_MissingFieldRaisesSchemaMismatch ==
    (loadCall.op = "deserialize_episode"
       /\ \E j \in 1..Len(loadCall.passed.steps) : LacksRequiredField(loadCall.passed.steps[j])) =>
        loadCall.out = Raise(SchemaMismatch)

----------------------------------------------------------------------------
(* Validator, Runtime and the decision cycle (clean); the Runtime of       *)
(* replay_ab                                                                *)

CleanAgentState(status, user_intent, meeting, permissions) ==
    [cls |-> "AgentState", status |-> status, user_intent |-> user_intent,
     meeting |-> meeting, permissions |-> permissions]

ABAgentState(status, user_intent, meeting) ==
    [cls |-> "AgentState", status |-> status, user_intent |-> user_intent,
     meeting |-> meeting]

CleanDecisionInput(task, observable_state_snapshot, allowed_intents, constraints) ==
    [cls |-> "DecisionInput", task |-> task,
     observable_state_snapshot |-> observable_state_snapshot,
     allowed_intents |-> allowed_intents, constraints |-> constraints]

Decision(type, payload) == [cls |-> "Decision", type |-> type, payload |-> payload]

\* timestamp (datetime.now) is left out
CleanEpisodeStep(last_decision, state_snapshot) ==
    [cls |-> "EpisodeStep", last_decision |-> last_decision,
     state_snapshot |-> state_snapshot]

EmptyDict == [k \in {} |-> k]

\* SimpleAgent.decide
decide(st) ==
    IF st.status = "awaiting_user_confirmation"
    THEN CleanDecisionInput(
             "Handle user's request",
             [status |-> st.status, meeting_time |-> st.meeting.time,
              context |-> "User wants to reschedule a meeting"],
             <<ASK, SEND, ABORT>>,
             <<NoEmailConstraint, "Only propose one intent">>)
    ELSE CleanDecisionInput("No-op", EmptyDict, <<>>, <<>>)

ConfidenceFloor == 60

\* isinstance(proposal.args.get("message"), str)
MessageIsStr(args) == "message" \in DOMAIN args /\ args.message.type = "str"

\* the confidence test with a strict comparison
AboveFloor(confidence) == confidence > ConfidenceFloor

AtLeastFloor(confidence) == confidence >= ConfidenceFloor

\* DecisionValidationLayer.validate: the asserts in order
validate(st, proposal, decision_input) ==
    IF ~InList(proposal.intent, decision_input.allowed_intents) THEN Raise("AssertionError")
    ELSE IF ~MessageIsStr(proposal.args) THEN Raise("AssertionError")
    ELSE IF proposal.intent = ASK /\ st.status # "awaiting_user_confirmation"
         THEN Raise("AssertionError")
    ELSE IF ~AtLeastFloor(proposal.confidence) THEN Raise("AssertionError")
    ELSE Ok(Decision(proposal.intent, proposal.args))

\* AgentState.apply (clean, episode_arbitration, multi_episode_replay)
apply(st, decision) ==
    IF decision.type = ASK THEN [st EXCEPT !.status = "waiting_user_response"]
    ELSE IF decision.type = ABORT THEN [st EXCEPT !.status = "aborted"]
    ELSE st

\* AgentState.apply (replay_ab)
apply_ab(st, decision) ==
    IF decision.type = ASK THEN [st EXCEPT !.status = "waiting_user_response"]
    ELSE st

\* AgentRuntime.execute (clean): the step holding the new state
execute(init_state, decision) ==
    Ok(CleanEpisodeStep(decision.type, apply(init_state, decision)))

\* AgentRuntime.execute (replay_ab): prints decision.payload['message'] first
execute_ab(st, decision) ==
    IF "message" \notin DOMAIN decision.payload THEN Raise("KeyError")
    ELSE Ok(apply_ab(st, decision))

Statuses == {"awaiting_user_confirmation", "waiting_user_response", "aborted"}

CleanStates ==
    { CleanAgentState(s, Bootstrap.user_intent, Bootstrap.meeting, Bootstrap.permissions) :
        s \in Statuses }

ABStates ==
    { ABAgentState(s, Bootstrap.user_intent, Bootstrap.meeting) : s \in Statuses }

LLMMessage == "Do you want me to reschedule the meeting to a new time?"

RunArgs ==
    { [message |-> Str(LLMMessage)], [message |-> Num("42")],
      [reason |-> Str("User intent unclear")], EmptyDict }

RunConfidences == {59, 60, 71}

\* LLMDecisionProvider.propose returns DecisionProposal(ASK, message, 0.71); the
\* other proposals are what a provider behind the same interface can return.
RunProposals ==
    { DecisionProposal(i, a, c) : i \in {ASK, SEND, ABORT}, a \in RunArgs, c \in RunConfidences }

RunInputs ==
    { decide(st) : st \in CleanStates }
    \cup { CleanDecisionInput("Handle user's request", EmptyDict, <<SEND, ABORT>>, <<>>) }

RunDecisions ==
    { Decision(t, a) : t \in {ASK, SEND, ABORT, "Unknown"}, a \in RunArgs }

InitRun ==
    /\ IdleArb
    /\ IdleOnline
    /\ IdleSer
    /\ IdleRun

Validate ==
    /\ \E st \in CleanStates, proposal \in RunProposals, decision_input \in RunInputs :
         runCall' = [op |-> "validate", state |-> st, proposal |-> proposal,
                     input |-> decision_input,
                     out |-> validate(st, proposal, decision_input)]
    /\ UNCHANGED <<state, episode, cycles, abState, abEpisode>>
    /\ UNCHANGED <<varsArb, varsOnline, varsSer>>

Execute ==
    /\ \E st \in CleanStates, decision \in RunDecisions :
         LET step == execute(st, decision)
         IN  runCall' = [op |-> "execute", runtime |-> "clean", state |-> st,
                         decision |-> decision, out |-> Ok(step.value.state_snapshot)]
    /\ UNCHANGED <<state, episode, cycles, abState, abEpisode>>
    /\ UNCHANGED <<varsArb, varsOnline, varsSer>>

ExecuteAB ==
    /\ \E st \in ABStates, decision \in RunDecisions :
         runCall' = [op |-> "execute", runtime |-> "replay_ab", state |-> st,
                     decision |-> decision, out |-> execute_ab(st, decision)]
    /\ UNCHANGED <<state, episode, cycles, abState, abEpisode>>
    /\ UNCHANGED <<varsArb, varsOnline, varsSer>>

\* the decision a cycle hands to the Runtime, taken from the proposal unvalidated
CycleDecisionUnvalidated(st, proposal, decision_input) ==
    Ok(Decision(proposal.intent, proposal.args))

\* the decision a cycle hands to the Runtime
CycleDecision(st, proposal, decision_input) == validate(st, proposal, decision_input)

\* One decision cycle of __main__ (clean): decide, propose, validate, execute,
\* append.  The step's state is the World State of the next cycle.
DecisionCycle ==
    /\ cycles < MaxCycles
    /\ \E proposal \in RunProposals :
         LET decision_input == decide(state)
             decision == CycleDecision(state, proposal, decision_input)
         IN  IF decision.kind # "ok"
             THEN /\ runCall' = [op |-> "cycle", state |-> state, proposal |-> proposal,
                                 input |-> decision_input, out |-> decision]
                  /\ UNCHANGED <<state, episode>>
             ELSE LET step == execute(state, decision.value).value
                  IN  /\ runCall' = [op |-> "cycle", state |-> state, proposal |-> proposal,
                                     input |-> decision_input, out |-> decision]
                      /\ state' = step.state_snapshot
                      /\ episode' = [episode EXCEPT !.steps = Append(@, step)]
    /\ cycles' = cycles + 1
    /\ UNCHANGED <<abState, abEpisode>>
    /\ UNCHANGED <<varsArb, varsOnline, varsSer>>

(* AgentState.apply on objects: heap is the sequence of the objects alive,  *)
(* a reference is an index into it.                                         *)

\* snapshot written as "return self"
snapshotSelf(heap, self) == [heap |-> heap, ref |-> self]

\* AgentState.snapshot: deepcopy(self), a new object equal field by field
snapshot(heap, self) == [heap |-> Append(heap, heap[self]), ref |-> Len(heap) + 1]

\* AgentState.apply (clean, episode_arbitration, multi_episode_replay): the
\* heap after the call and the reference returned
AgentState_apply(heap, self, decision) ==
    LET copied == snapshot(heap, self)
        new_state == copied.ref
    IN  [heap |-> IF decision.type = ASK
                  THEN [copied.heap EXCEPT ![new_state].status = "waiting_user_response"]
                  ELSE IF decision.type = ABORT
                       THEN [copied.heap EXCEPT ![new_state].status = "aborted"]
                       ELSE copied.heap,
         ref |-> new_state]

\* state.apply(decision) on a state of clean or of episode_arbitration
Apply ==
    /\ \E st \in CleanStates
                 \cup { AgentState(s, "reschedule_meeting", "2026-01-06 10:00") : s \in Statuses },
          decision \in RunDecisions :
         LET r == AgentState_apply(<<st>>, 1, decision)
         IN  runCall' = [op |-> "apply", self |-> st, decision |-> decision,
                         self_after |-> r.heap[1], fresh |-> r.ref # 1,
                         out |-> Ok(r.heap[r.ref])]
    /\ UNCHANGED <<state, episode, cycles, abState, abEpisode>>
    /\ UNCHANGED <<varsArb, varsOnline, varsSer>>

NextRun ==
    \/ Validate
    \/ Execute
    \/ ExecuteAB
    \/ DecisionCycle
    \/ Apply

SpecRun == InitRun /\ [][NextRun]_vars

\* C8: validate returns a Decision exactly when the intent is among the allowed
\* intents, the payload's message is present and a string, AskForConfirmation is
\* proposed only in status awaiting_user_confirmation, and the confidence is at
\* least 0.6 (0.6 passes); otherwise it fails.  The Decision has the proposal's
\* intent as type and its args as payload.
C8_ValidateAcceptsExactly ==
    (runCall.op \in {"validate", "cycle"}) =>
        LET p == runCall.proposal
            accepted ==
                /\ \E i \in 1..Len(runCall.input.allowed_intents) :
                      runCall.input.allowed_intents[i] = p.intent
                /\ "message" \in DOMAIN p.args
                /\ p.args.message.type = "str"
                /\ (p.intent = ASK => runCall.state.status = "awaiting_user_confirmation")
                /\ p.confidence >= 60
        IN  /\ accepted <=> runCall.out.kind = "ok"
            /\ accepted => /\ runCall.out.value.type = p.intent
                           /\ runCall.out.value.payload = p.args
            /\ ~accepted => runCall.out = [kind |-> "AssertionError"]

\* A proposal of confidence exactly 0.6 was validated and accepted.
C8_Witness ==
    /\ runCall.op = "validate"
    /\ runCall.proposal.confidence = 60
    /\ runCall.out.kind = "ok"
    /\ runCall.out.value.type = runCall.proposal.intent

\* C9: Runtime.execute follows the transition table: from
\* awaiting_user_confirmation an AskForConfirmation decision yields
\* waiting_user_response and an Abort decision yields aborted; a decision of any
\* other type leaves the status unchanged.
C9_ExecuteFollowsTransitionTable ==
    (runCall.op = "execute" /\ runCall.out.kind = "ok") =>
        /\ (runCall.state.status = "awaiting_user_confirmation"
              /\ runCall.decision.type = ASK) =>
               runCall.out.value.status = "waiting_user_response"
        /\ (runCall.state.status = "awaiting_user_confirmation"
              /\ runCall.decision.type = ABORT) =>
               runCall.out.value.status = "aborted"
        /\ (runCall.decision.type \notin {ASK, ABORT}) =>
               runCall.out.value.status = runCall.state.status

\* C29: the Abort path is reachable end to end: in status
\* awaiting_user_confirmation with Abort among the allowed intents, the Abort
\* provider's proposal (Abort, 0.6, a payload carrying only a reason) passes
\* validation, and executing the resulting Decision yields status aborted.
C29_AbortPathIsReachable ==
    LET payload == [reason |-> [type |-> "str", val |-> "User intent unclear"]]
        decision == [cls |-> "Decision", type |-> ABORT, payload |-> payload]
    IN  /\ (/\ runCall.op = "validate"
             /\ runCall.proposal = [cls |-> "DecisionProposal", intent |-> ABORT,
                                     args |-> payload, confidence |-> 60]
             /\ runCall.state.status = "awaiting_user_confirmation"
             /\ \E i \in 1..Len(runCall.input.allowed_intents) :
                   runCall.input.allowed_intents[i] = ABORT) =>
                runCall.out = [kind |-> "ok", value |-> decision]
        /\ (/\ runCall.op = "execute"
             /\ runCall.decision = decision
             /\ runCall.state.status = "awaiting_user_confirmation") =>
                /\ runCall.out.kind = "ok"
                /\ runCall.out.value.status = "aborted"

\* C10: aborted is terminal: once the World State's status is aborted, no
\* decision cycle produces a state of another status.
C10_AbortedIsTerminal ==
    [][state.status = "aborted" => state'.status = "aborted"]_vars

\* A cycle ran in status aborted; the Validator rejected a proposal that the
\* Runtime would have taken out of aborted.
C10_Witness ==
    /\ state.status = "aborted"
    /\ runCall.op = "cycle"
    /\ runCall.state.status = "aborted"
    /\ runCall.proposal.intent = ASK
    /\ runCall.proposal.confidence >= 60
    /\ "message" \in DOMAIN runCall.proposal.args
    /\ runCall.out.kind # "ok"

\* C13: AgentState.apply returns a new state object and leaves the state it
\* was called on unchanged in every field; the new state has the same fields
\* and differs from the old one in at most status.
C13_ApplyReturnsNewStateOnlyStatusDiffers ==
    (runCall.op = "apply") =>
        /\ runCall.self_after = runCall.self
        /\ runCall.fresh
        /\ DOMAIN runCall.out.value = DOMAIN runCall.self
        /\ \A f \in DOMAIN runCall.self \ {"status"} :
              runCall.out.value[f] = runCall.self[f]

\* An Abort decision was applied to a state awaiting confirmation: the state
\* returned is aborted, the receiver still awaits confirmation.
C13_Witness ==
    /\ runCall.op = "apply"
    /\ runCall.decision.type = ABORT
    /\ runCall.self.status = "awaiting_user_confirmation"
    /\ "permissions" \in DOMAIN runCall.self
    /\ runCall.out.value.status = "aborted"
    /\ runCall.self_after.status = "awaiting_user_confirmation"

----------------------------------------------------------------------------
(* Online cycles without a Validator: run_episode (episode_arbitration)    *)
(* and the online decision of __main__ (replay_ab)                          *)

\* run_episode(arbitrator): the Decision is built from the chosen proposal
\* and executed; the new state is dropped and decision.type returned.
RunEpisode ==
    /\ \E arb \in Arbitrators \cup {"random"}, draw \in LLMDraws, r \in RngStates :
         LET g == Gather(<<"llm", "rule", "abort">>, draw, OnlineInput, 3)
             chosen == ChooseWith(arb, g.scored_list, r)
         IN  /\ arb # "random" => r = 0
             /\ runCall' =
                  IF chosen.kind # "ok"
                  THEN [op |-> "run_episode", arb |-> arb, state |-> OnlineState,
                        input |-> OnlineInput, out |-> chosen]
                  ELSE LET decision == Decision(chosen.value.intent, chosen.value.args)
                       IN  [op |-> "run_episode", arb |-> arb, state |-> OnlineState,
                            input |-> OnlineInput, proposal |-> chosen.value,
                            decision |-> decision,
                            applied |-> apply(OnlineState, decision),
                            out |-> Ok(decision.type)]
    /\ UNCHANGED <<state, episode, cycles, abState, abEpisode>>
    /\ UNCHANGED <<varsArb, varsOnline, varsSer>>

\* a second constraint that holds the phrase the scorer of replay_ab looks for
NoEmailVariant == "Do not send email to external recipients"

\* ProposalScorer.score (replay_ab)
ScoreAB(proposal, decision_input, provider_name) ==
    LET RECURSIVE Violations(_)
        Violations(n) ==
            IF n = 0 THEN 0
            ELSE Violations(n - 1)
                   + (IF decision_input.constraints[n] \in {NoEmailConstraint, NoEmailVariant}
                         /\ proposal.intent = SEND
                      THEN 1 ELSE 0)
    IN  DecisionScore(
            proposal.confidence,
            InList(proposal.intent, decision_input.allowed_intents),
            Violations(Len(decision_input.constraints)),
            CASE provider_name = "rule" -> 2
              [] provider_name = "llm" -> 1
              [] OTHER -> 0)

build_decision_input(st) ==
    CleanDecisionInput(
        "Handle user request",
        [status |-> st.status, meeting_time |-> st.meeting.time],
        <<ASK, SEND, ABORT>>,
        <<NoEmailConstraint>>)

\* LLMDecisionProvider.propose returns the first of these; the others are
\* what a provider behind the same interface can return.
ABLLMProposals ==
    { DecisionProposal(ASK, [message |-> Str("Do you want me to reschedule the meeting?")], 65),
      DecisionProposal(ASK, [message |-> Str("Do you want me to reschedule the meeting?")], 40),
      DecisionProposal(SEND, [message |-> Str("Sending the reschedule email")], 95),
      DecisionProposal(ABORT, [reason |-> Str("User intent unclear")], 65),
      DecisionProposal(ASK,
          [message |-> Str("Please confirm if you want to reschedule the meeting.")], 95) }

\* the provider loop of __main__ (replay_ab): the two dicts after n providers
RECURSIVE GatherAB(_, _, _, _)
GatherAB(providers, llm, decision_input, n) ==
    IF n = 0 THEN [proposals |-> <<>>, scores |-> <<>>]
    ELSE LET sofar == GatherAB(providers, llm, decision_input, n - 1)
             name == providers[n]
             proposal ==
                 IF name = "llm" THEN llm
                 ELSE DecisionProposal(ASK,
                          [message |-> Str("Please confirm if you want to reschedule the meeting.")],
                          95)
         IN  [proposals |-> DictSet(sofar.proposals, name, proposal),
              scores |-> DictSet(sofar.scores, name,
                                 ScoreAB(proposal, decision_input, name))]

\* next(name for name, p in proposals.items() if p == chosen)
ChosenProvider(proposals, chosen) ==
    LET i == CHOOSE i \in 1..Len(proposals) :
                 /\ proposals[i][2] = chosen
                 /\ \A j \in 1..(i - 1) : proposals[j][2] # chosen
    IN  proposals[i][1]

\* steps.insert(0, step)
Episode_addFirst(self, step) == [self EXCEPT !.steps = <<step>> \o @]

\* Episode.add: self.steps.append(step)
Episode_add(self, step) == [self EXCEPT !.steps = Append(@, step)]

\* The online decision of __main__ (replay_ab): gather, arbitrate, build the
\* Decision, execute, episode.add.  An exception ends the cycle where it is
\* raised.  The new state is the World State of the next cycle.  The clock
\* read by datetime.now() is the number of the cycle.
OnlineDecisionAB ==
    /\ cycles < MaxCycles
    /\ \E providers \in {<<"llm", "rule">>, <<"llm">>}, llm \in ABLLMProposals :
         LET decision_input == build_decision_input(abState)
             g == GatherAB(providers, llm, decision_input, Len(providers))
             chosen == BaselineABChoose(Zip(Values(g.proposals), Values(g.scores)))
             selected == BaselineABFirst(Zip(Values(g.proposals), Values(g.scores)))
             call == [op |-> "online_decision", state |-> abState, input |-> decision_input]
         IN  IF chosen.kind # "ok"
             THEN /\ runCall' = call @@ [out |-> chosen]
                  /\ UNCHANGED <<abState, abEpisode>>
             ELSE LET decision == Decision(chosen.value.intent, chosen.value.args)
                      new_state == execute_ab(abState, decision)
                      made == call @@ [proposal |-> chosen.value,
                                       selected |-> selected.value,
                                       decision |-> decision, out |-> new_state]
                  IN  IF new_state.kind # "ok"
                      THEN /\ runCall' = made
                           /\ UNCHANGED <<abState, abEpisode>>
                      ELSE /\ runCall' = made
                           /\ abState' = new_state.value
                           /\ abEpisode' =
                                Episode_add(abEpisode,
                                    [cls |-> "EpisodeStep", timestamp |-> cycles,
                                     state_snapshot |-> abState,
                                     decision_input |-> decision_input,
                                     proposals |-> g.proposals, scores |-> g.scores,
                                     chosen_provider |->
                                         ChosenProvider(g.proposals, chosen.value),
                                     decision |-> decision])
    /\ cycles' = cycles + 1
    /\ UNCHANGED <<state, episode>>
    /\ UNCHANGED <<varsArb, varsOnline, varsSer>>

\* EpisodeStore._serialize_step: the dict written for one step
EpisodeStore_serialize_step(step) ==
    [timestamp |-> step.timestamp,
     state |-> asdict(step.state_snapshot),
     decision_input |-> asdict(step.decision_input),
     proposals |-> [i \in 1..Len(step.proposals) |->
                      <<step.proposals[i][1], asdict(step.proposals[i][2])>>],
     scores |-> [i \in 1..Len(step.scores) |->
                   <<step.scores[i][1], asdict(step.scores[i][2])>>],
     chosen_provider |-> step.chosen_provider,
     decision |-> asdict(step.decision)]

\* EpisodeStore.save(episode, path): the list json.dump writes
StoreSave ==
    /\ runCall' = [op |-> "save", episode |-> abEpisode,
                   out |-> [i \in 1..Len(abEpisode.steps) |->
                              EpisodeStore_serialize_step(abEpisode.steps[i])]]
    /\ UNCHANGED <<state, episode, cycles, abState, abEpisode>>
    /\ UNCHANGED <<varsArb, varsOnline, varsSer>>

\* Both persistence paths: serialize_episode (episode_replay) and
\* EpisodeStore.save after online decisions (replay_ab)
SpecStore == InitSer /\ [][Save \/ OnlineDecisionAB \/ StoreSave]_vars

Verbatim(d, obj) ==
    /\ DOMAIN d = DOMAIN obj \ {"cls"}
    /\ \A f \in DOMAIN d : d[f] = obj[f]

VerbatimByIdentity(items, mapping) ==
    /\ Len(items) = Len(mapping)
    /\ \A i \in 1..Len(items) :
          /\ items[i][1] = mapping[i][1]
          /\ Verbatim(items[i][2], mapping[i][2])

EntryHoldsStep(entry, step, chosen_intent) ==
    /\ {"state_snapshot", "decision_input", "proposals", "scores", "chosen_intent"}
          \subseteq DOMAIN entry
    /\ Verbatim(entry.state_snapshot, step.state_snapshot)
    /\ Verbatim(entry.decision_input, step.decision_input)
    /\ VerbatimByIdentity(entry.proposals, step.proposals)
    /\ VerbatimByIdentity(entry.scores, step.scores)
    /\ entry.chosen_intent = chosen_intent

\* C25: serializing an episode of n steps yields n entries in step order, and
\* every entry contains state_snapshot, decision_input, proposals and scores
\* by provider identity, and chosen_intent, each holding the step's value
\* verbatim (in replay_ab the chosen intent of a step is its decision's type).
C25_SerializedEntriesHoldRequiredFields ==
    /\ (docState = "saved") =>
          /\ Len(doc.steps) = Len(memEpisode.steps)
          /\ \A i \in 1..Len(doc.steps) :
                EntryHoldsStep(doc.steps[i], memEpisode.steps[i],
                               memEpisode.steps[i].chosen_intent)
    /\ (runCall.op = "save") =>
          /\ Len(runCall.out) = Len(runCall.episode.steps)
          /\ \A i \in 1..Len(runCall.out) :
                EntryHoldsStep(runCall.out[i], runCall.episode.steps[i],
                               runCall.episode.steps[i].decision.type)

NextCycle ==
    \/ RunEpisode
    \/ OnlineDecisionAB
    \/ DecisionCycle

SpecCycle == InitRun /\ [][NextCycle]_vars

\* the Validator's conditions on a proposal (spec 4.4; validate of clean)
PassesValidation(p, allowed_intents, status) ==
    /\ \E i \in 1..Len(allowed_intents) : allowed_intents[i] = p.intent
    /\ "message" \in DOMAIN p.args
    /\ p.args.message.type = "str"
    /\ (p.intent = ASK => status = "awaiting_user_confirmation")
    /\ p.confidence >= 60

\* C11: in every online cycle the Decision handed to Runtime.execute is the
\* one the Validator returns for the arbitrator's chosen proposal: the chosen
\* proposal passes validation and the Decision carries its intent and args.
C11_ExecutedDecisionWasValidated ==
    LET executed ==
            IF runCall.op = "cycle" THEN runCall.out.kind = "ok"
            ELSE runCall.op \in {"run_episode", "online_decision"}
                   /\ "decision" \in DOMAIN runCall
        decision == IF runCall.op = "cycle" THEN runCall.out.value ELSE runCall.decision
    IN  executed =>
          /\ PassesValidation(runCall.proposal, runCall.input.allowed_intents,
                              runCall.state.status)
          /\ decision = [cls |-> "Decision", type |-> runCall.proposal.intent,
                         payload |-> runCall.proposal.args]

\* C28: in the Episode Step an online cycle records, chosen_provider is the
\* identity of the provider whose (proposal, score) candidate the arbitrator
\* selected, also when two providers submit equal proposals.
C28_ChosenProviderIsSelectedCandidates ==
    (runCall.op = "online_decision" /\ runCall.out.kind = "ok") =>
        LET step == abEpisode.steps[Len(abEpisode.steps)]
        IN  \E a \in 1..Len(step.proposals) :
                /\ step.proposals[a][1] = step.chosen_provider
                /\ step.scores[a][1] = step.chosen_provider
                /\ runCall.selected = <<step.proposals[a][2], step.scores[a][2]>>

\* C23: episodes are append-only: each Episode.add makes the episode one step
\* longer, puts the added step last and leaves the earlier steps and their
\* positions as they were, so steps is the sequence of added steps in call
\* order.
C23_EpisodeAddAppends ==
    [][abEpisode' # abEpisode =>
         LET n == Len(abEpisode.steps)
         IN  /\ Len(abEpisode'.steps) = n + 1
             /\ \A i \in 1..n : abEpisode'.steps[i] = abEpisode.steps[i]
             /\ abEpisode'.steps[n + 1].state_snapshot = abState
             /\ abEpisode'.steps[n + 1].decision_input = runCall'.input
             /\ abEpisode'.steps[n + 1].decision = runCall'.decision]_vars

\* Two steps were added, the second recorded in the state the first led to.
C23_Witness ==
    /\ Len(abEpisode.steps) = 2
    /\ abEpisode.steps[1].state_snapshot.status = "awaiting_user_confirmation"
    /\ abEpisode.steps[2].state_snapshot.status = "waiting_user_response"
    /\ abEpisode.steps[1] # abEpisode.steps[2]

\* C12: a cycle is all-or-nothing: when arbitration, validation or execution
\* fails, World State and episode are as at cycle start; World State changes
\* or a step is recorded only when one Decision was fully validated, and
\* then exactly one step is appended.
C12_CycleIsAllOrNothing ==
    [][(cycles' = cycles + 1) =>
          LET failed == runCall'.out.kind # "ok"
              changed == state' # state \/ abState' # abState
              recorded == episode' # episode \/ abEpisode' # abEpisode
              validated ==
                  /\ "proposal" \in DOMAIN runCall'
                  /\ PassesValidation(runCall'.proposal, runCall'.input.allowed_intents,
                                      runCall'.state.status)
          IN  /\ failed => ~changed /\ ~recorded
              /\ (changed \/ recorded) =>
                    /\ validated
                    /\ ~failed
                    /\ Len(episode'.steps) + Len(abEpisode'.steps)
                         = Len(episode.steps) + Len(abEpisode.steps) + 1
                    /\ SubSeq(episode'.steps, 1, Len(episode.steps)) = episode.steps
                    /\ SubSeq(abEpisode'.steps, 1, Len(abEpisode.steps)) = abEpisode.steps
      ]_vars

----------------------------------------------------------------------------
(* The scorers as functions: episode_replay (the same code is in           *)
(* multi_episode_replay and episode_arbitration) and replay_ab             *)

\* (proposal, decision_input, provider_name) triples; the constraints are
\* lists of distinct constraints
ScoreInputs ==
    { [proposal |-> DecisionProposal(i, ArbArgs(i), c),
       decision_input |-> DecisionInput([status |-> "awaiting_user_confirmation"], a, cs),
       provider_name |-> n] :
        i \in ArbIntents, c \in LLMConfidences,
        a \in {<<ASK, SEND, ABORT>>, <<ASK>>, <<>>},
        cs \in { q \in UNION { [1..k -> {NoEmailConstraint, NoEmailVariant,
                                         "Only propose one intent"}] :
                               k \in 0..MaxConstraints } :
                   \A x, y \in 1..Len(q) : x # y => q[x] # q[y] },
        n \in {"rule", "abort", "llm", "planner"} }

InitScore ==
    /\ scoreArgs \in ScoreInputs
    /\ scoreCall = NoCall
    /\ scored = <<>> /\ arbCall = NoCall
    /\ rng = 0 /\ seeded = -1 /\ prevRandom = NoCall
    /\ IdleOnline
    /\ IdleSer
    /\ IdleRun

\* scorer.score(proposal, decision_input, p.name)
ScoreCall ==
    /\ \E scorer \in {"episode_replay", "replay_ab"} :
         scoreCall' =
           [op |-> "score", scorer |-> scorer, passed |-> scoreArgs,
            out |-> IF scorer = "replay_ab"
                    THEN ScoreAB(scoreArgs.proposal, scoreArgs.decision_input,
                                 scoreArgs.provider_name)
                    ELSE Score(scoreArgs.proposal, scoreArgs.decision_input,
                               scoreArgs.provider_name)]
    /\ UNCHANGED <<scored, arbCall, rng, seeded, prevRandom, scoreArgs>>
    /\ UNCHANGED <<varsOnline, varsSer, varsRun>>

SpecScore == InitScore /\ [][ScoreCall]_vars

\* C14: score is a function of (proposal, input, provider identity): the
\* confidence is the proposal's, intent_valid is true exactly when the intent
\* is in allowed_intents, and provider_priority is the table value (rule 3,
\* abort 2, llm 1), 0 for an identity not in the table; so two calls with the
\* same triple return equal scores.
C14_ScoreIsTableFunction ==
    (scoreCall.op = "score") =>
        LET a == scoreCall.passed
        IN  /\ scoreCall.out.confidence = a.proposal.confidence
            /\ scoreCall.out.intent_valid
                 = (\E i \in 1..Len(a.decision_input.allowed_intents) :
                       a.decision_input.allowed_intents[i] = a.proposal.intent)
            /\ scoreCall.out.provider_priority
                 = (CASE a.provider_name = "rule" -> 3
                      [] a.provider_name = "abort" -> 2
                      [] a.provider_name = "llm" -> 1
                      [] OTHER -> 0)

\* what each scorer takes as a match of the no-email rule: episode_replay the
\* constraint itself, replay_ab any constraint holding "Do not send email"
MatchesNoEmailRule(scorer, c) ==
    IF scorer = "replay_ab" THEN c \in {NoEmailConstraint, NoEmailVariant}
    ELSE c = NoEmailConstraint

----------------------------------------------------------------------------
(* The Confidence-only Arbitrator on arbitrary candidate lists             *)
(* (ConfidenceOnlyArbitrator; LLMOnlyArbitrator of replay_ab is the same)  *)

\* choose sorts the list it is given in place and returns scored[0][0]
ChooseConfidenceOnly ==
    /\ arbCall' = [op |-> "choose", arb |-> "confidence_only", passed |-> scored,
                   first |-> IF scored = <<>> THEN Raise("IndexError")
                             ELSE Ok(ConfidenceOnlySorted(scored)[1]),
                   out |-> ConfidenceOnlyChoose(scored)]
    /\ scored' = ConfidenceOnlySorted(scored)
    /\ UNCHANGED <<rng, seeded, prevRandom, scoreArgs, scoreCall>>
    /\ UNCHANGED <<varsOnline, varsSer, varsRun>>

NextArb ==
    \/ ChooseBaseline
    \/ ChooseBaselineAB
    \/ ChooseConfidenceOnly

SpecArb == InitArb /\ [][NextArb]_vars

\* C16: for every non-empty candidate list the Confidence-only Arbitrator
\* returns a candidate of the list whose confidence is the maximum over all
\* candidates, whatever their intent_valid, constraint_violation and
\* provider_priority.
C16_ConfidenceOnlyReturnsMaxConfidence ==
    (arbCall.op = "choose" /\ arbCall.arb = "confidence_only" /\ arbCall.passed # <<>>) =>
        /\ arbCall.out.kind = "ok"
        /\ \E i \in 1..Len(arbCall.passed) : arbCall.passed[i] = arbCall.first.value
        /\ \A i \in 1..Len(arbCall.passed) :
              arbCall.passed[i][2].confidence <= arbCall.first.value[2].confidence
        /\ arbCall.out.value = arbCall.first.value[1]

\* The candidate returned is one the Baseline Arbitrator excludes, chosen over
\* a valid candidate of higher priority and lower confidence.
C16_Witness ==
    /\ arbCall.op = "choose" /\ arbCall.arb = "confidence_only"
    /\ arbCall.out.kind = "ok"
    /\ arbCall.first.value[2].constraint_violation > 0
    /\ ~arbCall.first.value[2].intent_valid
    /\ \E i \in 1..Len(arbCall.passed) :
          /\ arbCall.passed[i][2].intent_valid
          /\ arbCall.passed[i][2].constraint_violation = 0
          /\ arbCall.passed[i][2].provider_priority
               > arbCall.first.value[2].provider_priority
          /\ arbCall.passed[i][2].confidence < arbCall.first.value[2].confidence

----------------------------------------------------------------------------
(* The Random Arbitrator and the generator it shares with the providers    *)

InitRandom ==
    /\ scored \in { Gather(<<"llm", "rule", "abort">>, draw, OnlineInput, 3).scored_list :
                      draw \in LLMDraws }
    /\ arbCall = NoCall
    /\ rng \in RngStates
    /\ seeded = -1
    /\ prevRandom = NoCall
    /\ scoreArgs = NoCall /\ scoreCall = NoCall
    /\ IdleOnline
    /\ IdleSer
    /\ IdleRun

\* random.seed(s): the only way to seed, choose takes no seed or generator
Seed ==
    /\ \E s \in RngStates :
         /\ rng' = s
         /\ seeded' = s
    /\ UNCHANGED <<scored, arbCall, prevRandom, scoreArgs, scoreCall>>
    /\ UNCHANGED <<varsOnline, varsSer, varsRun>>

\* LLMProvider.propose: random.choice and random.uniform on the same generator
ProviderDraw ==
    /\ rng' = NextRng(NextRng(rng))
    /\ UNCHANGED <<scored, arbCall, seeded, prevRandom, scoreArgs, scoreCall>>
    /\ UNCHANGED <<varsOnline, varsSer, varsRun>>

\* RandomArbitrator.choose(scored): random.choice on the module's generator
ChooseRandom ==
    /\ arbCall' = [op |-> "choose", arb |-> "random", passed |-> scored,
                   seed |-> seeded, out |-> RandomChoose(scored, rng)]
    /\ prevRandom' = arbCall
    /\ rng' = NextRng(rng)
    /\ seeded' = -1
    /\ UNCHANGED <<scored, scoreArgs, scoreCall>>
    /\ UNCHANGED <<varsOnline, varsSer, varsRun>>

SpecRandom == InitRandom /\ [][Seed \/ ProviderDraw \/ ChooseRandom]_vars

\* C17: two runs of the Random Arbitrator seeded identically over the same
\* candidate list choose the same intent: the choice depends only on the seed
\* and the candidates, not on other random draws made in the program.
C17_SeededRandomChoiceIsReproducible ==
    (/\ arbCall.op = "choose" /\ prevRandom.op = "choose"
     /\ arbCall.seed # -1
     /\ arbCall.seed = prevRandom.seed
     /\ arbCall.passed = prevRandom.passed) =>
        arbCall.out.value.intent = prevRandom.out.value.intent

----------------------------------------------------------------------------
(* ABOfflineEvaluator.evaluate (replay_ab): arbitrators A and B are handed  *)
(* the same list object, one after the other                               *)

\* RuleOnlyArbitrator.choose: scored.sort(key=-provider_priority), in place
RuleOnlySorted(list) ==
    SortedByKeys(list, [i \in 1..Len(list) |-> <<0 - list[i][2].provider_priority>>])

\* arbitrator.choose(scored) of replay_ab: what it returns and the list as the
\* call leaves it
ChooseInPlace(arb, list) ==
    CASE arb = "baseline_ab" -> [out |-> BaselineABChoose(list), scored |-> list]
      [] arb = "rule_only" ->
            [out |-> IF list = <<>> THEN Raise("IndexError")
                     ELSE Ok(RuleOnlySorted(list)[1][1]),
             scored |-> RuleOnlySorted(list)]
      [] arb = "llm_only" ->
            [out |-> ConfidenceOnlyChoose(list), scored |-> ConfidenceOnlySorted(list)]

\* scored is what zip(step.proposals.values(), step.scores.values()) yields
\* for the step under evaluation.
InitEval ==
    /\ LET EvalCandidates ==
             { <<DecisionProposal(i, ArbArgs(i), c), DecisionScore(c, TRUE, 0, p)>> :
                 i \in {ASK, SEND}, c \in ArbConfidences, p \in ArbPriorities }
       IN  scored \in UNION { [1..n -> EvalCandidates] : n \in 0..MaxCands }
    /\ arbCall = NoCall
    /\ rng = 0 /\ seeded = -1 /\ prevRandom = NoCall
    /\ scoreArgs = NoCall /\ scoreCall = NoCall
    /\ IdleOnline
    /\ IdleSer
    /\ IdleRun

\* One step of evaluate: a = A.choose(scored); b = B.choose(scored).  The list
\* is rebuilt from the stored step on every evaluation.
Evaluate ==
    /\ \E A \in {"baseline_ab", "rule_only", "llm_only"},
          B \in {"baseline_ab", "rule_only", "llm_only"} :
         LET a == ChooseInPlace(A, scored)
             b == ChooseInPlace(B, a.scored)
         IN  arbCall' = [op |-> "evaluate", A |-> A, B |-> B, passed |-> scored,
                         a |-> a.out,
                         b |-> IF a.out.kind = "ok" THEN b.out ELSE a.out]
    /\ prevRandom' = arbCall
    /\ UNCHANGED <<scored, rng, seeded, scoreArgs, scoreCall>>
    /\ UNCHANGED <<varsOnline, varsSer, varsRun>>

SpecEval == InitEval /\ [][Evaluate]_vars

\* C21: an arbitrator's choice for a candidate set does not depend on earlier
\* choose invocations: in two evaluations of the same step with the same
\* arbitrator B, in both of which arbitrator A returned a proposal, B chooses
\* the same proposal whichever arbitrator A was.
C21_ChoiceIndependentOfEarlierChoose ==
    (/\ arbCall.op = "evaluate" /\ prevRandom.op = "evaluate"
     /\ arbCall.passed = prevRandom.passed
     /\ arbCall.B = prevRandom.B
     /\ arbCall.a.kind = "ok" /\ prevRandom.a.kind = "ok") =>
        arbCall.b = prevRandom.b

----------------------------------------------------------------------------
(* Replays and online cycles running side by side (episode_replay): two    *)
(* threads calling replay_episode and one running the online loop, each    *)
(* step below atomic, in any interleaving.  par.replay[p] is the frame of   *)
(* thread p's call, par.scored[x] the list a frame's scored names.          *)

\* scored kept in one place for all calls
ModuleScored(p) == 1

\* scored is a local of replay_episode: each call has its own
LocalScored(p) == p

\* thread p calls replay_episode(ep, arbitrator): intents = []
ParReplayCall ==
    /\ \E p \in {1, 2}, k \in 1..Len(corpus), arb \in Arbitrators :
         /\ par.replay[p].pc \in {"idle", "done"}
         /\ par' = [par EXCEPT !.replay[p] =
                       [pc |-> "loop", k |-> k, arb |-> arb, i |-> 1, intents |-> <<>>,
                        overlapped |-> FALSE, out |-> NoCall]]
    /\ UNCHANGED <<corpus, corpusArb, onlineCall, replayCall, batchCall, batchPrev>>
    /\ UNCHANGED <<varsArb, varsSer, varsRun>>

\* for step in ep.steps: scored = list(zip(...)); after the last step,
\* return intents
ParReplayZip ==
    /\ \E p \in {1, 2} :
         LET f == par.replay[p]
         IN  /\ f.pc = "loop"
             /\ par' = IF f.i > Len(corpus[f.k].steps)
                       THEN [par EXCEPT !.replay[p].pc = "done",
                                        !.replay[p].out = Ok(f.intents)]
                       ELSE [par EXCEPT !.replay[p].pc = "choose",
                                        !.scored[LocalScored(p)] =
                                            StepScored(corpus[f.k].steps[f.i])]
    /\ UNCHANGED <<corpus, corpusArb, onlineCall, replayCall, batchCall, batchPrev>>
    /\ UNCHANGED <<varsArb, varsSer, varsRun>>

\* chosen = arbitrator.choose(scored); intents.append(chosen.intent)
ParReplayChoose ==
    /\ \E p \in {1, 2} :
         LET f == par.replay[p]
             list == par.scored[LocalScored(p)]
             chosen == Choose(f.arb, list)
             overlapped == f.overlapped \/ \E q \in {1, 2} \ {p} : par.replay[q].pc = "choose"
         IN  /\ f.pc = "choose"
             /\ par' = [par EXCEPT
                          !.scored[LocalScored(p)] =
                              IF f.arb = "confidence_only" THEN ConfidenceOnlySorted(list)
                              ELSE list,
                          !.replay[p] =
                              IF chosen.kind # "ok"
                              THEN [f EXCEPT !.pc = "done", !.out = chosen,
                                             !.overlapped = overlapped]
                              ELSE [f EXCEPT !.pc = "loop", !.i = f.i + 1,
                                             !.intents = Append(f.intents, chosen.value.intent),
                                             !.overlapped = overlapped]]
             /\ corpus' = [corpus EXCEPT ![f.k].steps[f.i] = StepAfterReplay(@, f.arb)]
    /\ UNCHANGED <<corpusArb, onlineCall, replayCall, batchCall, batchPrev>>
    /\ UNCHANGED <<varsArb, varsSer, varsRun>>

\* the online thread runs one cycle: run_online_episode(online_arb) returns
ParOnlineCycle ==
    /\ par.online.pc = "idle"
    /\ Len(corpus) < MaxEpisodes
    /\ \E draw \in {<<SEND, 95>>, <<ASK, 40>>} :
         LET r == RunOnlineEpisode(<<"llm", "rule", "abort">>, draw, "baseline")
         IN  /\ r.kind = "ok"
             /\ par' = [par EXCEPT !.online = [pc |-> "built", ep |-> r.value]]
    /\ UNCHANGED <<corpus, corpusArb, onlineCall, replayCall, batchCall, batchPrev>>
    /\ UNCHANGED <<varsArb, varsSer, varsRun>>

\* the online thread stores the episode: episodes.append(ep)
ParPublish ==
    /\ par.online.pc = "built"
    /\ corpus' = Append(corpus, par.online.ep)
    /\ corpusArb' = Append(corpusArb, "baseline")
    /\ par' = [par EXCEPT !.online = [pc |-> "idle", ep |-> NoCall]]
    /\ UNCHANGED <<onlineCall, replayCall, batchCall, batchPrev>>
    /\ UNCHANGED <<varsArb, varsSer, varsRun>>

SpecPar ==
    InitOnline /\ [][ParReplayCall \/ ParReplayZip \/ ParReplayChoose
                        \/ ParOnlineCycle \/ ParPublish]_vars

\* C22: replays may run in parallel with each other and with online cycles:
\* under every interleaving a replay under Baseline or Confidence-only returns
\* the intents it returns when it runs alone on its episode, no stored episode
\* is changed by any step, and the episode an online cycle has built is not
\* changed before it is stored.
C22_ParallelReplaysAreIsolated ==
    [][/\ \A p \in {1, 2} :
            par'.replay[p].pc = "done" =>
                par'.replay[p].out = ReplayEpisode(corpus'[par'.replay[p].k], par'.replay[p].arb)
       /\ \A k \in 1..Len(corpus) : Len(corpus') >= k /\ corpus'[k] = corpus[k]
       /\ (par.online.pc = "built" /\ par'.online.pc = "built") =>
              par'.online.ep = par.online.ep
       /\ (par.online.pc = "built" /\ par'.online.pc = "idle") =>
              corpus'[Len(corpus')] = par.online.ep]_vars

\* Thread 1 has returned <<SendRescheduleEmail>> under Confidence-only after
\* choosing while thread 2 held a list of its own, zipped from the same stored
\* step and not yet chosen from; thread 2 has returned <<AskForConfirmation>>
\* under Baseline; an online cycle has built its episode.
C22_Witness ==
    /\ par.replay[1].pc = "done"
    /\ par.replay[1].arb = "confidence_only"
    /\ par.replay[1].out = Ok(<<SEND>>)
    /\ par.replay[1].overlapped
    /\ par.replay[2].pc = "done"
    /\ par.replay[2].k = par.replay[1].k
    /\ par.replay[2].arb = "baseline"
    /\ par.replay[2].out = Ok(<<ASK>>)
    /\ par.online.pc = "built"

====
